---- MODULE Spec2Model ----
(***************************************************************************)
(* A model of src/src/dfa.rs of ucd-generate: the Thompson NFA compiler    *)
(* (NFA::from_hir), the subset construction (DFABuilder), the partition    *)
(* refinement minimizer (Minimizer) and the matcher (DFA::find).           *)
(*                                                                         *)
(* State ids are 0-based as in the source; TLA+ sequences are 1-based, so  *)
(* the state with id i of a table t is t[i + 1].                           *)
(***************************************************************************)
EXTENDS Integers, Sequences, FiniteSets, TLC

VARIABLES
    pattern,          \* the Hir handed to NFA::from_hir, or NoPattern for DFA::empty()
    pc,               \* where the pipeline stands
    msg,              \* the error / assertion message, "" when none
    nfa,              \* NFA.states
    dfa,              \* DFA { states, start }
    builder_states,   \* DFABuilder.builder_states
    cache,            \* DFABuilder.cache
    sparse,           \* the SparseSet of DFABuilder::build
    uncompiled,       \* the worklist of DFABuilder::build
    queued,           \* the HashSet of DFABuilder::build
    compiled_count,   \* how many times build computed the transitions of each DFA id
    in_transitions,   \* Minimizer.in_transitions
    partitions,       \* Minimizer.partitions
    waiting,          \* Minimizer.waiting
    state_to_part,    \* the local of Minimizer::run
    minimal_ids,      \* the local of Minimizer::run
    orig,             \* the DFA as it was when the latest Minimizer was constructed
    runs,             \* how many Minimizers have been constructed
    bytes,            \* the argument of DFA::find
    found,            \* the result of DFA::find: <<>> is None, <<i>> is Some(i)
    self_bytes,       \* Graphemes.bytes: what the iterator has not consumed
    yielded,          \* the items Graphemes::next has returned, as byte slices
    inserted,         \* history: the values handed to SparseSet::insert since the latest clear
    frame             \* the call of epsilon_closure in progress, when run step by step

vars == <<pattern, pc, msg, nfa, dfa, builder_states, cache, sparse, uncompiled,
          queued, compiled_count, in_transitions, partitions, waiting,
          state_to_part, minimal_ids, orig, runs, bytes, found, self_bytes, yielded,
          inserted, frame>>

(***************************************************************************)
(* Program constants and the bounds of the model.                          *)
(***************************************************************************)
DFA_DEAD == 0
ALPHABET_SIZE == 256

\* the longest byte slice handed to DFA::find
MaxInputLen == 3
\* the largest count n of a repetition e{n}, e{n,}, e{m,n}
MaxCount == 2
\* how many times in a row a DFA is minimized
MaxRuns == 2
\* the count of computations of one row of the DFA stops at this number
MaxCompiled == 3
MaxSparseSize == 3

Bytes == 0 .. (ALPHABET_SIZE - 1)

None == <<>>
Some(i) == <<i>>

Last(s) == s[Len(s)]
Front(s) == SubSeq(s, 1, Len(s) - 1)

RECURSIVE Reverse(_)
Reverse(s) == IF s = <<>> THEN <<>> ELSE Append(Reverse(Tail(s)), Head(s))

Min(S) == CHOOSE x \in S : \A y \in S : x <= y

\* the elements of S in increasing order; S0 is bound as a value, so that it
\* is computed once
RECURSIVE SortedSeqOf(_)
SortedSeqOf(S0) ==
    CHOOSE r \in {IF S = {} THEN <<>> ELSE <<Min(S)>> \o SortedSeqOf(S \ {Min(S)}) :
                     S \in {S0}} : TRUE

ElemsOf(s0) == UNION {{s[i] : i \in 1 .. Len(s)} : s \in {s0}}

(***************************************************************************)
(* The pattern AST (regex_syntax::hir::Hir), as far as NFA::compile reads  *)
(* it.  Every node carries the same fields.                                *)
(***************************************************************************)
Node(kind, ch, ranges, rkind, min, max, greedy, exprs) ==
    [kind |-> kind, ch |-> ch, ranges |-> ranges, rkind |-> rkind,
     min |-> min, max |-> max, greedy |-> greedy, exprs |-> exprs]

HirEmpty == Node("Empty", 0, <<>>, "", 0, 0, TRUE, <<>>)
LitU(ch) == Node("LiteralUnicode", ch, <<>>, "", 0, 0, TRUE, <<>>)
LitB(b) == Node("LiteralByte", b, <<>>, "", 0, 0, TRUE, <<>>)
ClsB(ranges) == Node("ClassBytes", 0, ranges, "", 0, 0, TRUE, <<>>)
ClsU(ranges) == Node("ClassUnicode", 0, ranges, "", 0, 0, TRUE, <<>>)
Rep(rkind, min, max, greedy, e) == Node("Repetition", 0, <<>>, rkind, min, max, greedy, <<e>>)
Group(e) == Node("Group", 0, <<>>, "", 0, 0, TRUE, <<e>>)
Concat(es) == Node("Concat", 0, <<>>, "", 0, 0, TRUE, es)
Alternation(es) == Node("Alternation", 0, <<>>, "", 0, 0, TRUE, es)
Anchor == Node("Anchor", 0, <<>>, "", 0, 0, TRUE, <<>>)
WordBoundary == Node("WordBoundary", 0, <<>>, "", 0, 0, TRUE, <<>>)
NoPattern == Node("None", 0, <<>>, "", 0, 0, TRUE, <<>>)

ByteRange(s, e) == [start |-> s, end |-> e]

\* hir::ClassUnicodeRange
ScalarRange(s, e) == [start |-> s, end |-> e]

(***************************************************************************)
(* NFA: the state table and the operations that grow and patch it.         *)
(* The add_* operators return the grown table; the id of the added state   *)
(* is the length of the table before the call.                             *)
(***************************************************************************)
add_empty(st) == Append(st, [kind |-> "Empty", next |-> 0])

add_range(st, start, end) ==
    Append(st, [kind |-> "Range", start |-> start, end |-> end, next |-> 0])

add_union(st) == Append(st, [kind |-> "Union", alternates |-> <<>>, reverse |-> FALSE])

add_reverse_union(st) ==
    Append(st, [kind |-> "Union", alternates |-> <<>>, reverse |-> TRUE])

add_match(st) == Append(st, [kind |-> "Match"])

\* patch that leaves a Range state as it is
patch_not_range(st, from, to) ==
    LET s == st[from + 1] IN
    CASE s.kind = "Empty" -> [st EXCEPT ![from + 1].next = to]
      [] s.kind = "Union" /\ ~s.reverse ->
            [st EXCEPT ![from + 1].alternates = Append(@, to)]
      [] s.kind = "Union" /\ s.reverse ->
            [st EXCEPT ![from + 1].alternates = <<to>> \o @]
      [] OTHER -> st

patch(st, from, to) ==
    LET s == st[from + 1] IN
    CASE s.kind = "Empty" -> [st EXCEPT ![from + 1].next = to]
      [] s.kind = "Range" -> [st EXCEPT ![from + 1].next = to]
      [] s.kind = "Union" /\ ~s.reverse ->
            [st EXCEPT ![from + 1].alternates = Append(@, to)]
      [] s.kind = "Union" /\ s.reverse ->
            [st EXCEPT ![from + 1].alternates = <<to>> \o @]
      [] s.kind = "Match" -> st

is_epsilon(s) == s.kind \in {"Empty", "Union"}

\* char::encode_utf8
encode_utf8(ch) ==
    IF ch < 128 THEN <<ch>>
    ELSE IF ch < 2048 THEN <<192 + (ch \div 64), 128 + (ch % 64)>>
    ELSE IF ch < 65536 THEN
        <<224 + (ch \div 4096), 128 + ((ch \div 64) % 64), 128 + (ch % 64)>>
    ELSE <<240 + (ch \div 262144), 128 + ((ch \div 4096) % 64),
           128 + ((ch \div 64) % 64), 128 + (ch % 64)>>

(***************************************************************************)
(* The result of a compile_* function: Result<ThompsonRef> and the table   *)
(* as the call left it.  status is "ok", "err" (an Err was returned) or    *)
(* "panic" (an assertion failed).                                          *)
(***************************************************************************)
Ok(st, start, end) ==
    [st |-> st, start |-> start, end |-> end, status |-> "ok", msg |-> ""]

Failed(st, status, m) ==
    [st |-> st, start |-> 0, end |-> 0, status |-> status, msg |-> m]

\* compile_range with the end of the range left out
compile_range_exclusive(st, start, end) ==
    Ok(add_range(st, start, end - 1), Len(st), Len(st))

compile_range(st, start, end) == Ok(add_range(st, start, end), Len(st), Len(st))

compile_empty(st) == Ok(add_empty(st), Len(st), Len(st))

\* The items the iterators handed to compile_concat and compile_alternation
\* yield: a byte range (compile_range), a sub-expression (compile), an
\* optional sub-expression (compile_zero_or_one).
RangeItem(s, e) == [t |-> "range", start |-> s, end |-> e]
ExprItem(e) == [t |-> "expr", expr |-> e]
OptItem(e, greedy) == [t |-> "opt", expr |-> e, greedy |-> greedy]
SeqItem(seq) == [t |-> "seq", ranges |-> seq]

Repeat(n, x) == [i \in 1 .. n |-> x]

NewUnion(st, greedy) == IF greedy THEN add_union(st) ELSE add_reverse_union(st)

RECURSIVE PatchAll(_, _, _)
PatchAll(st, ids, to) ==
    IF Len(ids) = 0 THEN st ELSE PatchAll(patch(st, ids[1], to), Tail(ids), to)

\* The operators named ...Then are the rest of a function after a call it
\* makes: they take the result of the call, and return it as it is when it
\* is not Ok (the ? operator).  The id of a state added to a table st is
\* Len(st).

\* compile_zero_or_one after compile(expr)
ZeroOrOneThen(union, compiled) ==
    IF compiled.status # "ok" THEN compiled
    ELSE Ok(patch(patch(patch(add_empty(compiled.st), union, compiled.start),
                        union, Len(compiled.st)),
                  compiled.end, Len(compiled.st)),
            union, Len(compiled.st))

\* compile_at_least, n = 0, after compile(expr)
AtLeastZeroThen(union, compiled) ==
    IF compiled.status # "ok" THEN compiled
    ELSE Ok(patch(patch(compiled.st, union, compiled.start), compiled.end, union),
            union, union)

\* compile_at_least, n = 1, after compile(expr)
AtLeastOneThen(greedy, compiled) ==
    IF compiled.status # "ok" THEN compiled
    ELSE Ok(patch(patch(NewUnion(compiled.st, greedy), compiled.end,
                        Len(compiled.st)),
                  Len(compiled.st), compiled.start),
            compiled.start, Len(compiled.st))

\* compile_at_least, n >= 2, after compile_exactly(expr, n - 1) and compile(expr)
AtLeastManyThen(greedy, prefix, last) ==
    IF last.status # "ok" THEN last
    ELSE Ok(patch(patch(patch(NewUnion(last.st, greedy), prefix.end, last.start),
                        last.end, Len(last.st)),
                  Len(last.st), last.start),
            prefix.start, Len(last.st))

\* compile_bounded, min # max, after compile_exactly and compile_concat
BoundedThen(prefix, suffix) ==
    IF suffix.status # "ok" THEN suffix
    ELSE Ok(patch(suffix.st, prefix.end, suffix.start), prefix.start, suffix.end)

\* the body of the for loop of compile_concat, after the iterator yielded
\* compiled; acc is the ThompsonRef { start, end } so far
ConcatStep(acc, compiled) ==
    IF compiled.status # "ok" THEN compiled
    ELSE Ok(patch(compiled.st, acc.end, compiled.start), acc.start, compiled.end)

\* the body of the first for loop of compile_alternation, after the iterator
\* yielded compiled; r holds the table and alternate_ends
AlternationStep(r, union, compiled) ==
    IF compiled.status # "ok"
    THEN [st |-> compiled.st, ends |-> r.ends,
          status |-> compiled.status, msg |-> compiled.msg]
    ELSE [st |-> patch(compiled.st, union, compiled.start),
          ends |-> Append(r.ends, compiled.end), status |-> "ok", msg |-> ""]

\* compile_alternation after its first for loop
AlternationThen(union, r) ==
    IF r.status # "ok" THEN Failed(r.st, r.status, r.msg)
    ELSE IF Len(r.ends) = 0
    THEN Failed(r.st, "panic", "alternations must be non-empty")
    ELSE Ok(PatchAll(add_empty(r.st), r.ends, Len(r.st)), union, Len(r.st))

\* from_hir after compile(expr)
FromHirThen(start, compiled) ==
    IF compiled.status # "ok" THEN compiled
    ELSE Ok(patch(patch(add_match(compiled.st), start, compiled.start),
                  compiled.end, Len(compiled.st)),
            start, Len(compiled.st))

\* The UTF-8 sequences of the scalar values start ..= end, as the iterator
\* utf8_ranges::Utf8Sequences::new(start, end) yields them: the range is split
\* around the surrogates, at the largest scalar value of each encoded length,
\* and where a continuation byte would not span its whole range; what is left
\* is encoded at both ends, byte by byte.
MaxScalarValue(i) == CASE i = 1 -> 127 [] i = 2 -> 2047 [] i = 3 -> 65535

ContinuationMask(i) == CASE i = 1 -> 63 [] i = 2 -> 4095 [] i = 3 -> 262143

\* r.start & !m differs from r.end & !m, and one end is not aligned on m
SplitsAt(start, end, i) ==
    LET m1 == ContinuationMask(i) + 1 IN
    /\ (start \div m1) # (end \div m1)
    /\ (start % m1 # 0 \/ end % m1 # m1 - 1)

RECURSIVE Utf8Sequences(_, _)
Utf8Sequences(start, end) ==
    IF start < 57344 /\ end > 55295
    THEN Utf8Sequences(start, 55295) \o Utf8Sequences(57344, end)
    ELSE IF start > end THEN <<>>
    ELSE IF \E i \in 1 .. 3 : start <= MaxScalarValue(i) /\ MaxScalarValue(i) < end
    THEN LET max == MaxScalarValue(
                       Min({i \in 1 .. 3 : start <= MaxScalarValue(i)
                                            /\ MaxScalarValue(i) < end}))
         IN  Utf8Sequences(start, max) \o Utf8Sequences(max + 1, end)
    ELSE IF end <= 127 THEN <<<<ByteRange(start, end)>>>>
    ELSE IF \E i \in 1 .. 3 : SplitsAt(start, end, i)
    THEN LET m1 == ContinuationMask(Min({i \in 1 .. 3 : SplitsAt(start, end, i)})) + 1
         IN  IF start % m1 # 0
             THEN Utf8Sequences(start, (start \div m1) * m1 + m1 - 1)
                  \o Utf8Sequences((start \div m1) * m1 + m1, end)
             ELSE Utf8Sequences(start, (end \div m1) * m1 - 1)
                  \o Utf8Sequences((end \div m1) * m1, end)
    ELSE <<[k \in 1 .. Len(encode_utf8(start)) |->
              ByteRange(encode_utf8(start)[k], encode_utf8(end)[k])]>>

\* flat_map of Utf8Sequences over the ranges of a Unicode class, from the
\* range of index i on
RECURSIVE ClassSequences(_, _)
ClassSequences(ranges, i) ==
    IF i > Len(ranges) THEN <<>>
    ELSE Utf8Sequences(ranges[i].start, ranges[i].end) \o ClassSequences(ranges, i + 1)

RECURSIVE compile(_, _)
RECURSIVE compile_concat(_, _)
RECURSIVE ConcatLoop(_, _, _)
RECURSIVE AlternationLoop(_, _, _, _)

compile_zero_or_one(st, expr, greedy) ==
    ZeroOrOneThen(Len(st), compile(NewUnion(st, greedy), expr))

\* what the iterator handed to compile_concat or compile_alternation yields
CompileItem(st, item) ==
    CASE item.t = "range" -> compile_range(st, item.start, item.end)
      [] item.t = "expr" -> compile(st, item.expr)
      [] item.t = "opt" -> compile_zero_or_one(st, item.expr, item.greedy)
      [] item.t = "seq" -> compile_concat(st, [i \in 1 .. Len(item.ranges) |->
                              RangeItem(item.ranges[i].start, item.ranges[i].end)])

\* the for loop of compile_concat, from the item of index i on
ConcatLoop(items, i, acc) ==
    IF acc.status # "ok" \/ i > Len(items) THEN acc
    ELSE ConcatLoop(items, i + 1, ConcatStep(acc, CompileItem(acc.st, items[i])))

compile_concat(st, items) ==
    IF Len(items) = 0 THEN compile_empty(st)
    ELSE ConcatLoop(items, 2, CompileItem(st, items[1]))

\* the first for loop of compile_alternation, from the item of index i on
AlternationLoop(items, union, i, r) ==
    IF r.status # "ok" \/ i > Len(items) THEN r
    ELSE AlternationLoop(items, union, i + 1,
                         AlternationStep(r, union, CompileItem(r.st, items[i])))

compile_alternation(st, items) ==
    AlternationThen(Len(st),
        AlternationLoop(items, Len(st), 1,
            [st |-> add_union(st), ends |-> <<>>, status |-> "ok", msg |-> ""]))

\* compile_exactly with one copy too many
compile_exactly_more(st, expr, n) == compile_concat(st, Repeat(n + 1, ExprItem(expr)))

compile_exactly(st, expr, n) == compile_concat(st, Repeat(n, ExprItem(expr)))

\* compile_at_least, n >= 2, after compile_exactly(expr, n - 1)
AtLeastManyPrefix(expr, greedy, prefix) ==
    IF prefix.status # "ok" THEN prefix
    ELSE AtLeastManyThen(greedy, prefix, compile(prefix.st, expr))

compile_at_least(st, expr, greedy, n) ==
    IF n = 0 THEN AtLeastZeroThen(Len(st), compile(NewUnion(st, greedy), expr))
    ELSE IF n = 1 THEN AtLeastOneThen(greedy, compile(st, expr))
    ELSE AtLeastManyPrefix(expr, greedy, compile_exactly(st, expr, n - 1))

\* compile_bounded after compile_exactly(expr, min)
BoundedPrefix(expr, greedy, min, max, prefix) ==
    IF prefix.status # "ok" THEN prefix
    ELSE IF min = max THEN prefix
    ELSE BoundedThen(prefix,
            compile_concat(prefix.st, Repeat(max - min, OptItem(expr, greedy))))

compile_bounded(st, expr, greedy, min, max) ==
    BoundedPrefix(expr, greedy, min, max, compile_exactly(st, expr, min))

compile_repetition(st, rep) ==
    CASE rep.rkind = "ZeroOrOne" -> compile_zero_or_one(st, rep.exprs[1], rep.greedy)
      [] rep.rkind = "ZeroOrMore" -> compile_at_least(st, rep.exprs[1], rep.greedy, 0)
      [] rep.rkind = "OneOrMore" -> compile_at_least(st, rep.exprs[1], rep.greedy, 1)
      [] rep.rkind = "Exactly" -> compile_exactly(st, rep.exprs[1], rep.min)
      [] rep.rkind = "AtLeast" ->
            compile_at_least(st, rep.exprs[1], rep.greedy, rep.min)
      [] rep.rkind = "Bounded" ->
            compile_bounded(st, rep.exprs[1], rep.greedy, rep.min, rep.max)

\* the bytes of a literal char, each as the item compile_range(b, b)
LiteralItems(buf) == [i \in 1 .. Len(buf) |-> RangeItem(buf[i], buf[i])]

\* the ranges of a byte class, each as the item compile_range(start, end)
ClassItems(ranges) ==
    [i \in 1 .. Len(ranges) |-> RangeItem(ranges[i].start, ranges[i].end)]

\* the UTF-8 sequences of a Unicode class, each as the item compile_concat(..)
SeqItems(seqs) == [i \in 1 .. Len(seqs) |-> SeqItem(seqs[i])]

compile_unicode_class(st, ranges) ==
    compile_alternation(st, SeqItems(ClassSequences(ranges, 1)))

\* the sub-expressions of a Concat or Alternation, each as the item compile(e)
ExprItems(exprs) == [i \in 1 .. Len(exprs) |-> ExprItem(exprs[i])]

compile(st, expr) ==
    CASE expr.kind = "Empty" -> compile_empty(st)
      [] expr.kind = "LiteralUnicode" ->
            compile_concat(st, LiteralItems(encode_utf8(expr.ch)))
      [] expr.kind = "LiteralByte" -> compile_range(st, expr.ch, expr.ch)
      [] expr.kind = "ClassBytes" -> compile_alternation(st, ClassItems(expr.ranges))
      [] expr.kind = "ClassUnicode" -> compile_unicode_class(st, expr.ranges)
      [] expr.kind = "Repetition" -> compile_repetition(st, expr)
      [] expr.kind = "Group" -> compile(st, expr.exprs[1])
      [] expr.kind = "Concat" -> compile_concat(st, ExprItems(expr.exprs))
      [] expr.kind = "Alternation" ->
            compile_alternation(st, ExprItems(expr.exprs))
      [] expr.kind = "Anchor" -> Failed(st, "err", "anchors are not supported")
      [] expr.kind = "WordBoundary" ->
            Failed(st, "err", "word boundaries are not supported")

from_hir(expr) == FromHirThen(0, compile(add_empty(<<>>), expr))

(***************************************************************************)
(* SparseSet.  ok turns FALSE when the assertion of insert fails; nothing  *)
(* runs after a failed assertion, so every later operation leaves the set  *)
(* alone.                                                                  *)
(***************************************************************************)
SparseSetNew(size) ==
    [dense |-> <<>>, sparse |-> [i \in 0 .. (size - 1) |-> 0],
     capacity |-> size, ok |-> TRUE]

SparseInsert(set, value) ==
    LET i == Len(set.dense) IN
    IF ~set.ok THEN set
    ELSE IF ~(i < set.capacity) THEN [set EXCEPT !.ok = FALSE]
    ELSE [set EXCEPT !.dense = Append(@, value), !.sparse[value] = i]

\* contains without the comparison against dense
SparseContainsStale(set, value) == set.sparse[value] < Len(set.dense)

SparseContains(set, value) ==
    LET i == set.sparse[value] IN
    i < Len(set.dense) /\ set.dense[i + 1] = value

SparseClear(set) == IF set.ok THEN [set EXCEPT !.dense = <<>>] ELSE set

(***************************************************************************)
(* DFA and DFABuilder.                                                     *)
(***************************************************************************)
DFAStateEmpty == [is_match |-> FALSE, transitions |-> [b \in Bytes |-> DFA_DEAD]]

DFAEmptyValue == [states |-> <<DFAStateEmpty>>, start |-> DFA_DEAD]

DFABuilderStateDead == [is_match |-> FALSE, nfa_states |-> <<>>]

\* set_transition with the two state ids taken in the wrong order
set_transition_swapped(d, from, b, to) ==
    [d EXCEPT !.states[to + 1].transitions[b] = from]

set_transition(d, from, b, to) ==
    [d EXCEPT !.states[from + 1].transitions[b] = to]

RECURSIVE ClosureOuter(_, _, _)
RECURSIVE ClosureInner(_, _, _, _)

\* The while loop of epsilon_closure: pop an id, then run the inner loop on
\* it.  (In both loops the stack and the set are bound as values, so that
\* they are computed once.)
ClosureOuter(n, stack0, set0) ==
    CHOOSE r \in
        {IF Len(stack) = 0 \/ ~set.ok THEN set
         ELSE ClosureInner(n, Front(stack), set, Last(stack)) :
            stack \in {stack0}, set \in {set0}} : TRUE

\* the inner loop of epsilon_closure
ClosureInner(n, stack0, set0, id) ==
    CHOOSE r \in
        {IF SparseContains(set, id) THEN ClosureOuter(n, stack, set)
         ELSE LET set1 == SparseInsert(set, id)
                  s == n[id + 1]
              IN  IF ~set1.ok THEN set1
                  ELSE CASE s.kind = "Empty" -> ClosureInner(n, stack, set1, s.next)
                         [] s.kind = "Union" ->
                               IF Len(s.alternates) = 0
                               THEN ClosureOuter(n, stack, set1)
                               ELSE ClosureInner(n,
                                                 stack \o Reverse(Tail(s.alternates)),
                                                 set1, s.alternates[1])
                         [] OTHER -> ClosureOuter(n, stack, set1) :
            stack \in {stack0}, set \in {set0}} : TRUE

epsilon_closure(n, start, set) ==
    IF ~is_epsilon(n[start + 1]) THEN SparseInsert(set, start)
    ELSE ClosureOuter(n, <<start>>, set)

\* the for loop of DFABuilder::next over the NFA states of the DFA state
RECURSIVE NextLoop(_, _, _, _, _)
NextLoop(n, nfa_states, i, b, set) ==
    IF i > Len(nfa_states) THEN set
    ELSE LET s == n[nfa_states[i] + 1] IN
         IF s.kind = "Range" /\ s.start <= b /\ b <= s.end
         THEN NextLoop(n, nfa_states, i + 1, b, epsilon_closure(n, s.next, set))
         ELSE NextLoop(n, nfa_states, i + 1, b, set)

next(n, bstates, dfa_id, b, set) ==
    NextLoop(n, bstates[dfa_id + 1].nfa_states, 1, b, SparseClear(set))

\* the for loop of new_state over the set, in insertion order; Match breaks
RECURSIVE NewStateLoop(_, _, _, _)
NewStateLoop(n, dense, i, state) ==
    IF i > Len(dense) THEN state
    ELSE LET s == n[dense[i] + 1] IN
         CASE s.kind = "Range" ->
                NewStateLoop(n, dense, i + 1,
                             [state EXCEPT !.nfa_states = Append(@, dense[i])])
           [] s.kind = "Match" -> [state EXCEPT !.is_match = TRUE]
           [] OTHER -> NewStateLoop(n, dense, i + 1, state)

new_state(n, set) ==
    NewStateLoop(n, set.dense, 1, [is_match |-> FALSE, nfa_states |-> <<>>])

(***************************************************************************)
(* The builder as one record, for the operators that thread it.            *)
(***************************************************************************)
Builder(d, bs, c, sp, un, q, cc) ==
    [dfa |-> d, builder_states |-> bs, cache |-> c, sparse |-> sp,
     uncompiled |-> un, queued |-> q, compiled_count |-> cc]

\* add_state: the builder with the state added; its id is the number of DFA
\* states before the call
add_state(B, state) ==
    LET id == Len(B.dfa.states) IN
    [B EXCEPT !.dfa.states = Append(@, [DFAStateEmpty EXCEPT !.is_match = state.is_match]),
              !.builder_states = Append(@, state),
              !.cache = (state :> id) @@ @,
              !.compiled_count = Append(@, 0)]

\* cached_state after next has filled the sparse set
CachedStateThen(n, B, set) ==
    LET state == new_state(n, set)
        B1 == [B EXCEPT !.sparse = set]
    IN  IF state \in DOMAIN B.cache THEN <<B1, B.cache[state]>>
        ELSE <<add_state(B1, state), Len(B.dfa.states)>>

\* cached_state: <<the builder after the call, the id returned>>.  (The set
\* next computes is bound as a value, so that it is computed once.)
cached_state(n, B, dfa_id, b) ==
    CHOOSE r \in {CachedStateThen(n, B, set) :
                    set \in {next(n, B.builder_states, dfa_id, b, SparseClear(B.sparse))}} :
        TRUE

\* DFABuilder::new on a DFA with no state, where DFA::empty() has the dead one
DFABuilderNewNoDead(n) ==
    Builder([states |-> <<>>, start |-> DFA_DEAD], <<>>,
            (DFABuilderStateDead :> DFA_DEAD), SparseSetNew(Len(n)), <<>>, {}, <<>>)

\* DFABuilder::new, with the locals of build as build first sets them: the
\* sparse set of new_sparse_set, an empty worklist, an empty queued set
DFABuilderNew(n) ==
    Builder(DFAEmptyValue, <<DFABuilderStateDead>>,
            (DFABuilderStateDead :> DFA_DEAD), SparseSetNew(Len(n)), <<>>, {}, <<0>>)

\* add_start, and the worklist of build seeded with the start state
add_start(n, B) ==
    LET set == epsilon_closure(n, 0, B.sparse)
        state == new_state(n, set)
        id == Len(B.dfa.states)
        B1 == add_state([B EXCEPT !.sparse = set], state)
    IN  [B1 EXCEPT !.dfa.start = id, !.uncompiled = <<id>>]

\* the body of the for loop of build for one byte, after cached_state
\* returned r
BuildByteThen(r, dfa_id, b) ==
    LET B1 == r[1]
        next_dfa_id == r[2]
        B2 == [B1 EXCEPT !.dfa = set_transition(@, dfa_id, b, next_dfa_id)]
    IN  IF ~B1.sparse.ok THEN B1
        ELSE IF next_dfa_id \notin B2.queued
        THEN [B2 EXCEPT !.uncompiled = Append(@, next_dfa_id),
                        !.queued = @ \cup {next_dfa_id}]
        ELSE B2

\* the body of the for loop of build for one byte
BuildByte(n, B, dfa_id, b) ==
    CHOOSE B1 \in {BuildByteThen(r, dfa_id, b) : r \in {cached_state(n, B, dfa_id, b)}} :
        TRUE

\* The for loop of build over the bytes lo ..= hi, in increasing order, on
\* the builder B0.  The range is halved so that the evaluation does not nest
\* 256 deep, and the builder is bound as a value, so that each half is
\* computed once, the lower before the upper is entered.
RECURSIVE BuildBytes(_, _, _, _, _)
BuildBytes(n, B0, dfa_id, lo, hi) ==
    CHOOSE B1 \in
        {IF ~B.sparse.ok THEN B
         ELSE IF lo = hi THEN BuildByte(n, B, dfa_id, lo)
         ELSE BuildBytes(n, BuildBytes(n, B, dfa_id, lo, (lo + hi) \div 2),
                         dfa_id, (lo + hi) \div 2 + 1, hi) : B \in {B0}} : TRUE

\* an iteration of the while loop of build that reads the last id of the
\* worklist and leaves it there
BuildPeek(n, B) ==
    LET dfa_id == Last(B.uncompiled)
        B1 == [B EXCEPT !.compiled_count[dfa_id + 1] =
                            IF @ < MaxCompiled THEN @ + 1 ELSE @]
    IN  BuildBytes(n, B1, dfa_id, 0, ALPHABET_SIZE - 1)

\* one iteration of the while loop of build: pop a DFA id, compute its row
BuildPop(n, B) ==
    LET dfa_id == Last(B.uncompiled)
        B1 == [B EXCEPT !.uncompiled = Front(@),
                        !.compiled_count[dfa_id + 1] =
                            IF @ < MaxCompiled THEN @ + 1 ELSE @]
    IN  BuildBytes(n, B1, dfa_id, 0, ALPHABET_SIZE - 1)

(***************************************************************************)
(* DFA::find.                                                              *)
(***************************************************************************)
\* the for loop of find returning at the first matching state it enters
RECURSIVE FindLoopFirst(_, _, _, _, _)
FindLoopFirst(d, bs, i, state, last_match) ==
    IF i >= Len(bs) THEN last_match
    ELSE LET state1 == d.states[state + 1].transitions[bs[i + 1]] IN
         IF state1 = DFA_DEAD THEN last_match
         ELSE IF d.states[state1 + 1].is_match THEN Some(i + 1)
         ELSE FindLoopFirst(d, bs, i + 1, state1, last_match)

\* the for loop of find recording the index of the byte that led to a
\* matching state instead of the number of bytes read
RECURSIVE FindLoopBefore(_, _, _, _, _)
FindLoopBefore(d, bs, i, state, last_match) ==
    IF i >= Len(bs) THEN last_match
    ELSE LET state1 == d.states[state + 1].transitions[bs[i + 1]] IN
         IF state1 = DFA_DEAD THEN last_match
         ELSE IF d.states[state1 + 1].is_match
         THEN FindLoopBefore(d, bs, i + 1, state1, Some(i))
         ELSE FindLoopBefore(d, bs, i + 1, state1, last_match)

\* the for loop of find, from the byte of index i (0-based) on
RECURSIVE FindLoop(_, _, _, _, _)
FindLoop(d, bs, i, state, last_match) ==
    IF i >= Len(bs) THEN last_match
    ELSE LET state1 == d.states[state + 1].transitions[bs[i + 1]] IN
         IF state1 = DFA_DEAD THEN last_match
         ELSE IF d.states[state1 + 1].is_match
         THEN FindLoop(d, bs, i + 1, state1, Some(i + 1))
         ELSE FindLoop(d, bs, i + 1, state1, last_match)

\* find with last_match set from the start state before any byte is read
find_from_start(d, bs) ==
    FindLoop(d, bs, 0, d.start,
             IF d.states[d.start + 1].is_match THEN Some(0) ELSE None)

find(d, bs) == FindLoop(d, bs, 0, d.start, None)

(***************************************************************************)
(* StateSet: a vector of DFA state ids.                                    *)
(***************************************************************************)
\* canonicalize: sort, then dedup
canonicalize(s) == SortedSeqOf(ElemsOf(s))

\* The loop of intersection.  a and b are the current elements, ia and ib
\* the (1-based) positions the iterators ita and itb yield next.
RECURSIVE IntersectionLoop(_, _, _, _, _, _, _)
IntersectionLoop(seta, setb, a, b, ia, ib, result) ==
    IF a = b THEN
        IF ia > Len(seta) \/ ib > Len(setb) THEN Append(result, a)
        ELSE IntersectionLoop(seta, setb, seta[ia], setb[ib], ia + 1, ib + 1,
                              Append(result, a))
    ELSE IF a < b THEN
        IF ia > Len(seta) THEN result
        ELSE IntersectionLoop(seta, setb, seta[ia], b, ia + 1, ib, result)
    ELSE
        IF ib > Len(setb) THEN result
        ELSE IntersectionLoop(seta, setb, a, setb[ib], ia, ib + 1, result)

intersection(self, other) ==
    IF Len(self) = 0 \/ Len(other) = 0 THEN <<>>
    ELSE IntersectionLoop(self, other, self[1], other[1], 2, 2, <<>>)

\* The loop of subtract and the for loop after it, which adds what ita has
\* left.
RECURSIVE SubtractLoop(_, _, _, _, _, _, _)
SubtractLoop(seta, setb, a, b, ia, ib, result) ==
    IF a = b THEN
        IF ia > Len(seta) THEN result
        ELSE IF ib > Len(setb)
        THEN Append(result, seta[ia]) \o SubSeq(seta, ia + 1, Len(seta))
        ELSE SubtractLoop(seta, setb, seta[ia], setb[ib], ia + 1, ib + 1, result)
    ELSE IF a < b THEN
        IF ia > Len(seta) THEN Append(result, a)
        ELSE SubtractLoop(seta, setb, seta[ia], b, ia + 1, ib, Append(result, a))
    ELSE
        IF ib > Len(setb)
        THEN Append(result, a) \o SubSeq(seta, ia, Len(seta))
        ELSE SubtractLoop(seta, setb, a, setb[ib], ia, ib + 1, result)

\* subtract without the loop that adds what is left of self once other is
\* exhausted
subtract_no_rest(self, other) ==
    IF Len(self) = 0 \/ Len(other) = 0 THEN self
    ELSE SelectSeq(self, LAMBDA a : a \notin ElemsOf(other) /\ a < Last(other))

subtract(self, other) ==
    IF Len(self) = 0 \/ Len(other) = 0 THEN self
    ELSE SubtractLoop(self, other, self[1], other[1], 2, 2, <<>>)

(***************************************************************************)
(* Minimizer.                                                              *)
(***************************************************************************)
StateIds(d) == 0 .. (Len(d.states) - 1)

\* incoming_transitions: incoming[next][b] lists, in increasing order, the
\* ids whose transition on b leads to next
incoming_transitions(d) ==
    [id \in StateIds(d) |->
        [b \in Bytes |->
            SortedSeqOf({i \in StateIds(d) : d.states[i + 1].transitions[b] = id})]]

\* the assertion of initial_partitions made on the list of non-matching states
HasNoMatch(d) == \E i \in StateIds(d) : ~d.states[i + 1].is_match

\* the assertion of initial_partitions: there is a matching state
HasMatch(d) == \E i \in StateIds(d) : d.states[i + 1].is_match

\* initial_partitions that puts all the states into one block
initial_partitions_one_block(d) == <<SortedSeqOf(StateIds(d))>>

\* initial_partitions, when its assertion holds
initial_partitions(d) ==
    LET is_match == SortedSeqOf({i \in StateIds(d) : d.states[i + 1].is_match})
        no_match == SortedSeqOf({i \in StateIds(d) : ~d.states[i + 1].is_match})
    IN  IF Len(no_match) = 0 THEN <<is_match>>
        ELSE IF Len(no_match) < Len(is_match) THEN <<no_match, is_match>>
        ELSE <<is_match, no_match>>

\* the closure of find_incoming_to over the ids of set
RECURSIVE IncomingLoop(_, _, _, _, _)
IncomingLoop(in_tr, b, set, i, incoming) ==
    IF i > Len(set) THEN incoming
    ELSE IncomingLoop(in_tr, b, set, i + 1, incoming \o in_tr[set[i]][b])

\* find_incoming_to that looks at the first state of the set only
find_incoming_to_first(in_tr, b, set) ==
    IF Len(set) = 0 THEN <<>> ELSE canonicalize(in_tr[set[1]][b])

find_incoming_to(in_tr, b, set) == canonicalize(IncomingLoop(in_tr, b, set, 1, <<>>))

\* position: the 0-based index of the first element of w equal to s, or -1
Position(w, s) ==
    IF \E i \in 1 .. Len(w) : w[i] = s
    THEN Min({i \in 1 .. Len(w) : w[i] = s}) - 1
    ELSE -1

\* The body of the for loop of run over the partitions, for the partition p,
\* and the rest of the loop.
RECURSIVE SplitLoop(_, _, _)
SplitThen(M, incoming, p) ==
    IF p > Len(M.partitions) THEN M
    ELSE LET part == M.partitions[p]
             x == intersection(part, incoming)
             y == subtract(part, incoming)
             i == Position(M.waiting, part)
         IN  IF Len(x) = 0 \/ Len(y) = 0
             THEN SplitLoop([M EXCEPT !.newparts = Append(@, part)], incoming, p + 1)
             ELSE SplitLoop(
                    [M EXCEPT !.newparts = @ \o <<x, y>>,
                              !.waiting =
                                  IF i >= 0 THEN Append([@ EXCEPT ![i + 1] = x], y)
                                  ELSE IF Len(x) <= Len(y) THEN Append(@, x)
                                  ELSE Append(@, y)],
                    incoming, p + 1)

\* The for loop of run over the partitions, for one byte.  M is
\* [partitions, waiting, newparts]; partitions is replaced only after the
\* loop.  M0 is bound as a value, so that it is computed once.
SplitLoop(M0, incoming, p) ==
    CHOOSE M1 \in {SplitThen(M, incoming, p) : M \in {M0}} : TRUE

\* the for loop over the partitions for one byte, then self.partitions =
\* newparts
RefineByteThen(M, incoming) ==
    CHOOSE M2 \in {[M1 EXCEPT !.partitions = M1.newparts] :
                      M1 \in {SplitLoop([M EXCEPT !.newparts = <<>>], incoming, 1)}} : TRUE

\* the body of the for loop of run over the bytes, for one byte
RefineByte(in_tr, M, set, b) ==
    CHOOSE M2 \in {RefineByteThen(M, incoming) :
                      incoming \in {find_incoming_to(in_tr, b, set)}} : TRUE

\* The for loop of run over the bytes lo ..= hi, in increasing order.  The
\* range is halved, and the lower half is evaluated before the upper half is
\* entered, so that the evaluation does not nest 256 deep; with no partition
\* left there is nothing a byte could split.
RECURSIVE RefineBytes(_, _, _, _, _)
RefineBytes(in_tr, M0, set, lo, hi) ==
    CHOOSE M1 \in
        {IF Len(M.partitions) = 0 THEN M
         ELSE IF lo = hi THEN RefineByte(in_tr, M, set, lo)
         ELSE RefineBytes(in_tr, RefineBytes(in_tr, M, set, lo, (lo + hi) \div 2),
                          set, (lo + hi) \div 2 + 1, hi) : M \in {M0}} : TRUE

\* one iteration of the while loop of run that leaves the set in waiting
RefinePeek(in_tr, parts, wait) ==
    RefineBytes(in_tr,
                [partitions |-> parts, waiting |-> wait, newparts |-> <<>>],
                Last(wait), 0, ALPHABET_SIZE - 1)

\* one iteration of the while loop of run: pop a set, refine by all bytes
RefinePop(in_tr, parts, wait) ==
    RefineBytes(in_tr,
                [partitions |-> parts, waiting |-> Front(wait), newparts |-> <<>>],
                Last(wait), 0, ALPHABET_SIZE - 1)

\* state_to_part that leaves every state its own representative
StateToSelf(d, parts) == [id \in StateIds(d) |-> id]

\* state_to_part of run
StateToPart(d, parts) ==
    [id \in StateIds(d) |->
        IF \E p \in 1 .. Len(parts) : id \in ElemsOf(parts[p])
        THEN LET p == CHOOSE p \in 1 .. Len(parts) :
                        /\ id \in ElemsOf(parts[p])
                        /\ \A q \in (p + 1) .. Len(parts) : id \notin ElemsOf(parts[q])
             IN  parts[p][1]
        ELSE DFA_DEAD]

\* minimal_ids numbering the representatives from the last to the first
MinimalIdsDescending(d, s2p) ==
    [id \in StateIds(d) |->
        IF s2p[id] = id
        THEN Cardinality({j \in (id + 1) .. (Len(d.states) - 1) : s2p[j] = j})
        ELSE DFA_DEAD]

\* minimal_ids of run
MinimalIds(d, s2p) ==
    [id \in StateIds(d) |->
        IF s2p[id] = id THEN Cardinality({j \in 0 .. (id - 1) : s2p[j] = j})
        ELSE DFA_DEAD]

\* the renumbering loop without the swap: every state stays where it is
SwapNone(s, i, j) == s

Swap(s, i, j) == [s EXCEPT ![i] = s[j], ![j] = s[i]]

\* the last for loop of run with the transitions rewritten by minimal_ids
\* alone, without the step through state_to_part
RECURSIVE RenumberLoopNoPart(_, _, _, _)
RenumberLoopNoPart(states, s2p, mids, id) ==
    IF id >= Len(states) THEN states
    ELSE IF s2p[id] # id THEN RenumberLoopNoPart(states, s2p, mids, id + 1)
    ELSE LET rewritten ==
                 [states EXCEPT ![id + 1].transitions = [b \in Bytes |-> mids[@[b]]]]
         IN  RenumberLoopNoPart(Swap(rewritten, id + 1, mids[id] + 1), s2p, mids, id + 1)

\* the last for loop of run, from state id on
RECURSIVE RenumberLoop(_, _, _, _)
RenumberLoop(states, s2p, mids, id) ==
    IF id >= Len(states) THEN states
    ELSE IF s2p[id] # id THEN RenumberLoop(states, s2p, mids, id + 1)
    ELSE LET rewritten ==
                 [states EXCEPT ![id + 1].transitions =
                     [b \in Bytes |-> mids[s2p[@[b]]]]]
         IN  RenumberLoop(Swap(rewritten, id + 1, mids[id] + 1), s2p, mids, id + 1)

\* the end of run with the states resized to one past the minimal count
\* instead of truncated to it
RenumberedResized(d, s2p, mids) ==
    LET minimal_count == Cardinality({id \in StateIds(d) : s2p[id] = id}) IN
    [d EXCEPT !.states =
        Append(SubSeq(RenumberLoop(d.states, s2p, mids, 0), 1, minimal_count),
               DFAStateEmpty)]

\* the end of run: the states renumbered, then truncated to the minimal count
Renumbered(d, s2p, mids) ==
    LET minimal_count == Cardinality({id \in StateIds(d) : s2p[id] = id}) IN
    [d EXCEPT !.states = SubSeq(RenumberLoop(d.states, s2p, mids, 0), 1, minimal_count)]

(***************************************************************************)
(* The patterns and the inputs of the model.                               *)
(***************************************************************************)
\* a and z
Lits == {LitU(97), LitU(122)}

\* U+00E9 is the bytes C3 A9
Simple == Lits \cup {LitU(233), HirEmpty, ClsB(<<ByteRange(97, 122)>>)}

Unsupported == {Anchor, WordBoundary}

\* the class of U+0080 ..= U+07FF, every scalar value of two UTF-8 bytes
U0080_07FF == ClsU(<<ScalarRange(128, 2047)>>)

\* Unicode classes: the two-byte class, and one that spans two lengths
UnicodeClasses == {U0080_07FF, ClsU(<<ScalarRange(127, 128)>>)}

Leaves == Simple \cup Unsupported \cup UnicodeClasses \cup {LitB(122), ClsB(<<>>)}

\* every form of repetition of e, with counts up to MaxCount
RepForms(e) ==
    {Rep(k, 0, 0, g, e) : k \in {"ZeroOrOne", "ZeroOrMore", "OneOrMore"}, g \in BOOLEAN}
    \cup {Rep("Exactly", n, n, TRUE, e) : n \in 0 .. MaxCount}
    \cup {Rep("AtLeast", n, n, g, e) : n \in 0 .. MaxCount, g \in BOOLEAN}
    \cup {Rep("Bounded", mn[1], mn[2], g, e) :
            mn \in {x \in (0 .. MaxCount) \X (0 .. MaxCount) : x[1] <= x[2]},
            g \in BOOLEAN}

Stars(e) == {Rep(k, 0, 0, g, e) : k \in {"ZeroOrOne", "ZeroOrMore", "OneOrMore"},
                                  g \in BOOLEAN}

Pairs(S) == {<<x, y>> : x \in S, y \in S}

Level1 ==
    UNION {RepForms(e) : e \in {LitU(97), Anchor}}
    \cup {Concat(p) : p \in Pairs(Simple \cup {Anchor})}
    \cup {Alternation(p) : p \in Pairs(Simple \cup {Anchor})}
    \cup {Group(e) : e \in {LitU(97), WordBoundary}}

\* (?:a|[a-b]z|b)*z: the bytes a and b lead from the start state to the same
\* NFA states, reached in two different orders
A_ABZ_B_STAR_Z ==
    Concat(<<Rep("ZeroOrMore", 0, 0, TRUE,
                 Alternation(<<LitU(97),
                               Concat(<<ClsU(<<ScalarRange(97, 98)>>), LitU(122)>>),
                               LitU(98)>>)),
             LitU(122)>>)

Level2 ==
    {Alternation(<<x, Concat(<<y, z>>)>>) : x \in Lits, y \in Lits, z \in Lits}
    \cup {Alternation(<<Concat(<<y, z>>), x>>) : x \in Lits, y \in Lits, z \in Lits}
    \cup {Alternation(<<Concat(<<x, z>>), Concat(<<y, z>>)>>) :
            x \in Lits, y \in Lits, z \in Lits}
    \cup {Alternation(<<LitU(97), Concat(<<LitU(122), LitU(122)>>), LitU(122)>>)}
    \cup UNION {Stars(e) : e \in Stars(LitU(97))}
    \cup {Rep("ZeroOrMore", 0, 0, TRUE, Rep("AtLeast", 2, 2, TRUE, LitU(97)))}
    \cup UNION {Stars(Alternation(<<LitU(97), LitU(122)>>))}
    \cup {Concat(<<x, e>>) : x \in Lits,
                             e \in {Rep("Exactly", 0, 0, TRUE, WordBoundary),
                                    Rep("ZeroOrMore", 0, 0, TRUE, LitU(122)),
                                    Rep("ZeroOrOne", 0, 0, FALSE, LitU(122)),
                                    Alternation(<<LitU(97), LitU(122)>>)}}
    \cup {Concat(<<Alternation(<<LitU(97), LitU(122)>>),
                   Alternation(<<LitU(97), LitU(122)>>)>>)}
    \cup {Alternation(<<Concat(<<LitU(97), LitU(97), LitU(122)>>),
                        Concat(<<LitU(122), LitU(122)>>)>>)}
    \cup {Alternation(<<Concat(<<LitU(97), LitU(233)>>), LitU(97)>>),
          Concat(<<LitU(97), Rep("ZeroOrMore", 0, 0, TRUE, LitU(233))>>)}
    \cup {A_ABZ_B_STAR_Z}

Patterns == Leaves \cup Level1 \cup Level2

\* the byte values the inputs of find are made of
InputBytes == {97, 122, 195, 169}

Inputs == UNION {[1 .. n -> InputBytes] : n \in 0 .. MaxInputLen}

\* the UTF-8 encodings of U+007F ..= U+0800: the scalar values of the
\* two-byte class and the one next to it on either side
ScalarInputs == {encode_utf8(c) : c \in 127 .. 2048}

\* the byte slices find is called with on the DFA of a pattern
InputsOf(p) == IF p \in UnicodeClasses THEN Inputs \cup ScalarInputs ELSE Inputs

(***************************************************************************)
(* The state machine: a pattern is compiled to an NFA, the NFA to a DFA,   *)
(* the DFA is minimized (up to MaxRuns times), and find runs on a DFA.     *)
(***************************************************************************)
NoDFA == [states |-> <<>>, start |-> DFA_DEAD]
NoSparse == SparseSetNew(0)

\* no call of epsilon_closure is in progress
NoFrame ==
    [at |-> "none", start |-> 0, before |-> {}, stack |-> <<>>, id |-> 0, pending |-> <<>>]

BuilderDropped ==
    /\ builder_states' = <<>>
    /\ cache' = <<>>
    /\ sparse' = NoSparse
    /\ uncompiled' = <<>>
    /\ queued' = {}
    /\ compiled_count' = <<>>

Init ==
    /\ pattern \in Patterns \cup {NoPattern}
    /\ pc = "init"
    /\ msg = ""
    /\ nfa = <<>>
    /\ dfa = NoDFA
    /\ builder_states = <<>>
    /\ cache = <<>>
    /\ sparse = NoSparse
    /\ uncompiled = <<>>
    /\ queued = {}
    /\ compiled_count = <<>>
    /\ in_transitions = <<>>
    /\ partitions = <<>>
    /\ waiting = <<>>
    /\ state_to_part = <<>>
    /\ minimal_ids = <<>>
    /\ orig = NoDFA
    /\ runs = 0
    /\ bytes = <<>>
    /\ found = None
    /\ self_bytes = <<>>
    /\ yielded = <<>>
    /\ inserted = <<>>
    /\ frame = NoFrame

\* NFA::from_hir(pattern)
FromHir ==
    /\ pc = "init"
    /\ pattern # NoPattern
    /\ LET r == from_hir(pattern) IN
         /\ pc' = IF r.status = "ok" THEN "compiled" ELSE r.status
         /\ msg' = r.msg
         /\ nfa' = IF r.status = "ok" THEN r.st ELSE <<>>
    /\ UNCHANGED <<pattern, dfa, builder_states, cache, sparse, uncompiled, queued,
                   compiled_count, in_transitions, partitions, waiting,
                   state_to_part, minimal_ids, orig, runs, bytes, found, self_bytes, yielded,
                   inserted, frame>>

\* DFA::empty()
DFAEmpty ==
    /\ pc = "init"
    /\ pattern = NoPattern
    /\ dfa' = DFAEmptyValue
    /\ pc' = "built"
    /\ UNCHANGED <<pattern, msg, nfa, builder_states, cache, sparse, uncompiled,
                   queued, compiled_count, in_transitions, partitions, waiting,
                   state_to_part, minimal_ids, orig, runs, bytes, found, self_bytes, yielded,
                   inserted, frame>>

SetBuilder(B) ==
    /\ dfa' = B.dfa
    /\ builder_states' = B.builder_states
    /\ cache' = B.cache
    /\ sparse' = B.sparse
    /\ uncompiled' = B.uncompiled
    /\ queued' = B.queued
    /\ compiled_count' = B.compiled_count
    /\ pc' = IF B.sparse.ok THEN "building" ELSE "panic"
    /\ msg' = IF B.sparse.ok THEN "" ELSE "assertion failed: i < self.capacity()"

\* DFA::from_nfa: DFABuilder::new(nfa), and build up to its while loop
BuildStart ==
    /\ pc = "compiled"
    /\ \E B \in {add_start(nfa, DFABuilderNew(nfa))} : SetBuilder(B)
    /\ UNCHANGED <<pattern, nfa, in_transitions, partitions, waiting,
                   state_to_part, minimal_ids, orig, runs, bytes, found, self_bytes, yielded,
                   inserted, frame>>

\* one iteration of the while loop of build
BuildStep ==
    /\ pc = "building"
    /\ Len(uncompiled) > 0
    /\ \E B \in {BuildPop(nfa, Builder(dfa, builder_states, cache, sparse,
                                         uncompiled, queued, compiled_count))} :
          SetBuilder(B)
    /\ UNCHANGED <<pattern, nfa, in_transitions, partitions, waiting,
                   state_to_part, minimal_ids, orig, runs, bytes, found, self_bytes, yielded,
                   inserted, frame>>

\* the worklist is empty: build returns the DFA, the builder is dropped
BuildDone ==
    /\ pc = "building"
    /\ Len(uncompiled) = 0
    /\ pc' = "built"
    /\ BuilderDropped
    /\ UNCHANGED <<pattern, msg, nfa, dfa, in_transitions, partitions, waiting,
                   state_to_part, minimal_ids, orig, runs, bytes, found, self_bytes, yielded,
                   inserted, frame>>

\* dfa.find(s)
Find ==
    /\ pc \in {"built", "minimized"}
    /\ \E s \in InputsOf(pattern) :
         /\ bytes' = s
         /\ found' = find(dfa, s)
    /\ pc' = "found"
    /\ UNCHANGED <<pattern, msg, nfa, dfa, builder_states, cache, sparse, uncompiled,
                   queued, compiled_count, in_transitions, partitions, waiting,
                   state_to_part, minimal_ids, orig, runs, self_bytes, yielded,
                   inserted, frame>>

\* Minimizer::new(&mut dfa)
MinimizerNew ==
    /\ pc \in {"built", "minimized"}
    /\ runs < MaxRuns
    /\ runs' = runs + 1
    /\ orig' = dfa
    /\ in_transitions' = incoming_transitions(dfa)
    /\ IF HasMatch(dfa)
       THEN /\ partitions' = initial_partitions(dfa)
            /\ waiting' = <<partitions'[1]>>
            /\ pc' = "refining"
            /\ msg' = ""
       ELSE /\ partitions' = <<>>
            /\ waiting' = <<>>
            /\ pc' = "panic"
            /\ msg' = "must have at least one matching state"
    /\ UNCHANGED <<pattern, nfa, dfa, builder_states, cache, sparse, uncompiled,
                   queued, compiled_count, state_to_part, minimal_ids, bytes, found,
                   self_bytes, yielded,
                   inserted, frame>>

\* one iteration of the while loop of Minimizer::run
RefineStep ==
    /\ pc = "refining"
    /\ Len(waiting) > 0
    /\ \E M \in {RefinePop(in_transitions, partitions, waiting)} :
         /\ partitions' = M.partitions
         /\ waiting' = M.waiting
    /\ UNCHANGED <<pattern, pc, msg, nfa, dfa, builder_states, cache, sparse,
                   uncompiled, queued, compiled_count, in_transitions,
                   state_to_part, minimal_ids, orig, runs, bytes, found, self_bytes, yielded,
                   inserted, frame>>

\* the waiting list is empty: run renumbers and truncates, and the Minimizer
\* is dropped (the final partitions stay readable)
Renumber ==
    /\ pc = "refining"
    /\ Len(waiting) = 0
    /\ state_to_part' = StateToPart(dfa, partitions)
    /\ minimal_ids' = MinimalIds(dfa, state_to_part')
    /\ dfa' = Renumbered(dfa, state_to_part', minimal_ids')
    /\ pc' = "minimized"
    /\ in_transitions' = <<>>
    /\ UNCHANGED <<partitions, waiting>>
    /\ UNCHANGED <<pattern, msg, nfa, builder_states, cache, sparse, uncompiled,
                   queued, compiled_count, orig, runs, bytes, found, self_bytes, yielded,
                   inserted, frame>>

\* std::str::from_utf8(bs).is_ok(): bs is a sequence of well-formed UTF-8
\* encodings of scalar values
RECURSIVE from_utf8_is_ok(_)
from_utf8_is_ok(bs) ==
    LET Cont(i, lo, hi) == i <= Len(bs) /\ bs[i] >= lo /\ bs[i] <= hi
        first == bs[1]
    IN  IF Len(bs) = 0 THEN TRUE
        ELSE IF first < 128 THEN from_utf8_is_ok(SubSeq(bs, 2, Len(bs)))
        ELSE IF first >= 194 /\ first <= 223
        THEN Cont(2, 128, 191) /\ from_utf8_is_ok(SubSeq(bs, 3, Len(bs)))
        ELSE IF first >= 224 /\ first <= 239
        THEN /\ Cont(2, IF first = 224 THEN 160 ELSE 128, IF first = 237 THEN 159 ELSE 191)
             /\ Cont(3, 128, 191)
             /\ from_utf8_is_ok(SubSeq(bs, 4, Len(bs)))
        ELSE IF first >= 240 /\ first <= 244
        THEN /\ Cont(2, IF first = 240 THEN 144 ELSE 128, IF first = 244 THEN 143 ELSE 191)
             /\ Cont(3, 128, 191)
             /\ Cont(4, 128, 191)
             /\ from_utf8_is_ok(SubSeq(bs, 5, Len(bs)))
        ELSE FALSE

\* the slices of Graphemes::next with the rest starting one byte late
GraphemesSplitLate(bs, end) ==
    [grapheme |-> SubSeq(bs, 1, end),
     bytes |-> SubSeq(bs, (IF end < Len(bs) THEN end + 1 ELSE end) + 1, Len(bs))]

\* the two slices Graphemes::next takes of its bytes at the offset find
\* returned: &self.bytes[..end] and &self.bytes[end..]
GraphemesSplit(bs, end) ==
    [grapheme |-> SubSeq(bs, 1, end), bytes |-> SubSeq(bs, end + 1, Len(bs))]

\* Graphemes { bytes: given.as_bytes() } on GRAPHEME_DFA, a DFA that was
\* built and then minimized once
GraphemesNew ==
    /\ pc = "minimized"
    /\ runs = 1
    /\ \E s \in InputsOf(pattern) :
         /\ bytes' = s
         /\ self_bytes' = s
    /\ yielded' = <<>>
    /\ pc' = "iterating"
    /\ UNCHANGED <<pattern, msg, nfa, dfa, builder_states, cache, sparse, uncompiled,
                   queued, compiled_count, in_transitions, partitions, waiting,
                   state_to_part, minimal_ids, orig, runs, found, inserted, frame>>

\* Graphemes::next: None ends the iteration (the collect of ucdtests stops)
GraphemesNext ==
    /\ pc = "iterating"
    /\ found' = find(dfa, self_bytes)
    /\ IF found' = None
       THEN /\ pc' = "iterated"
            /\ UNCHANGED <<msg, self_bytes, yielded>>
       ELSE LET split == GraphemesSplit(self_bytes, found'[1]) IN
            /\ self_bytes' = split.bytes
            /\ IF from_utf8_is_ok(split.grapheme)
               THEN /\ yielded' = Append(yielded, split.grapheme)
                    /\ UNCHANGED <<pc, msg>>
               ELSE /\ pc' = "panic"
                    /\ msg' = "called Result::unwrap() on an Err value"
                    /\ UNCHANGED yielded
    /\ UNCHANGED <<pattern, nfa, dfa, builder_states, cache, sparse, uncompiled,
                   queued, compiled_count, in_transitions, partitions, waiting,
                   state_to_part, minimal_ids, orig, runs, bytes, inserted, frame>>

\* set.insert(value) on a SparseSet alone, for a value below its size
SparseSetInsert ==
    /\ pc = "sparse"
    /\ \E value \in DOMAIN sparse.sparse :
         /\ sparse' = SparseInsert(sparse, value)
         /\ IF sparse'.ok
            THEN /\ inserted' = Append(inserted, value)
                 /\ UNCHANGED <<pc, msg>>
            ELSE /\ pc' = "panic"
                 /\ msg' = "assertion failed: i < self.capacity()"
                 /\ UNCHANGED inserted
    /\ UNCHANGED <<pattern, nfa, dfa, builder_states, cache, uncompiled, queued,
                   compiled_count, in_transitions, partitions, waiting, state_to_part,
                   minimal_ids, orig, runs, bytes, found, self_bytes, yielded,
                   frame>>

\* set.clear() on a SparseSet alone
SparseSetClear ==
    /\ pc = "sparse"
    /\ sparse' = SparseClear(sparse)
    /\ inserted' = <<>>
    /\ UNCHANGED <<pattern, pc, msg, nfa, dfa, builder_states, cache, uncompiled, queued,
                   compiled_count, in_transitions, partitions, waiting, state_to_part,
                   minimal_ids, orig, runs, bytes, found, self_bytes, yielded,
                   frame>>

\* One iteration of the inner loop of epsilon_closure without the test of
\* set.contains(id).
ClosureVisitUnchecked(n, fr, set) ==
    LET set1 == SparseInsert(set, fr.id)
        s == n[fr.id + 1]
    IN  CASE s.kind = "Empty" -> [frame |-> [fr EXCEPT !.id = s.next], set |-> set1]
          [] s.kind = "Union" ->
                IF Len(s.alternates) = 0
                THEN [frame |-> [fr EXCEPT !.at = "while"], set |-> set1]
                ELSE [frame |-> [fr EXCEPT !.id = s.alternates[1],
                                           !.stack = @ \o Reverse(Tail(s.alternates))],
                      set |-> set1]
          [] OTHER -> [frame |-> [fr EXCEPT !.at = "while"], set |-> set1]

\* One iteration of the inner loop of epsilon_closure, on the id of the
\* frame: break if the set contains it; else insert it and go on to its
\* successor, pushing the other alternates of a Union in reverse.
ClosureVisit(n, fr, set) ==
    IF SparseContains(set, fr.id) THEN [frame |-> [fr EXCEPT !.at = "while"], set |-> set]
    ELSE LET set1 == SparseInsert(set, fr.id)
             s == n[fr.id + 1]
         IN  CASE s.kind = "Empty" -> [frame |-> [fr EXCEPT !.id = s.next], set |-> set1]
               [] s.kind = "Union" ->
                     IF Len(s.alternates) = 0
                     THEN [frame |-> [fr EXCEPT !.at = "while"], set |-> set1]
                     ELSE [frame |-> [fr EXCEPT !.id = s.alternates[1],
                                                !.stack = @ \o Reverse(Tail(s.alternates))],
                           set |-> set1]
               [] OTHER -> [frame |-> [fr EXCEPT !.at = "while"], set |-> set1]

\* the targets of the Range states of nfa_states that hold b, in order: the
\* starts of the calls DFABuilder::next makes of epsilon_closure
RangeTargets(n, nfa_states, b) ==
    LET hit == SelectSeq(nfa_states,
                         LAMBDA id : /\ n[id + 1].kind = "Range"
                                     /\ n[id + 1].start <= b
                                     /\ b <= n[id + 1].end)
    IN  [i \in 1 .. Len(hit) |-> n[hit[i] + 1].next]

ClosureUnchanged ==
    UNCHANGED <<pattern, nfa, dfa, builder_states, cache, uncompiled, queued,
                compiled_count, in_transitions, partitions, waiting, state_to_part,
                minimal_ids, orig, runs, bytes, found, self_bytes, yielded, inserted>>

\* the state after a step of epsilon_closure: the assertion of insert may fail
ClosureSet(fr, set) ==
    /\ sparse' = set
    /\ frame' = fr
    /\ pc' = IF set.ok THEN "closing" ELSE "panic"
    /\ msg' = IF set.ok THEN "" ELSE "assertion failed: i < self.capacity()"

\* build up to the call add_start makes of epsilon_closure(0, sparse), on a
\* new SparseSet
ClosureAddStart ==
    /\ pc = "compiled"
    /\ ClosureSet([NoFrame EXCEPT !.at = "call", !.pending = <<0>>],
                  SparseSetNew(Len(nfa)))
    /\ ClosureUnchanged

\* cached_state for some byte on the state new_state makes of the set: the
\* set is cleared, and next calls epsilon_closure for each Range state that
\* holds the byte
ClosureNext ==
    /\ pc = "closing"
    /\ frame.at \in {"call", "returned"}
    /\ frame.pending = <<>>
    /\ \E b \in Bytes :
          ClosureSet([NoFrame EXCEPT
                         !.at = "call",
                         !.pending = RangeTargets(nfa, new_state(nfa, sparse).nfa_states, b)],
                     SparseClear(sparse))
    /\ ClosureUnchanged

\* the entry of epsilon_closure(start, set): a start that is not an epsilon
\* state is inserted and the call returns, any other is pushed
ClosureCall ==
    /\ pc = "closing"
    /\ frame.at \in {"call", "returned"}
    /\ frame.pending # <<>>
    /\ LET start == Head(frame.pending)
           fr == [frame EXCEPT !.start = start, !.before = ElemsOf(sparse.dense),
                               !.pending = Tail(@)]
       IN  IF ~is_epsilon(nfa[start + 1])
           THEN ClosureSet([fr EXCEPT !.at = "returned"], SparseInsert(sparse, start))
           ELSE ClosureSet([fr EXCEPT !.at = "while", !.stack = Append(@, start)], sparse)
    /\ ClosureUnchanged

\* the head of the while loop of epsilon_closure: pop an id, or return
ClosureWhile ==
    /\ pc = "closing"
    /\ frame.at = "while"
    /\ IF frame.stack = <<>>
       THEN ClosureSet([frame EXCEPT !.at = "returned"], sparse)
       ELSE ClosureSet([frame EXCEPT !.at = "loop", !.id = Last(frame.stack),
                                     !.stack = Front(@)], sparse)
    /\ ClosureUnchanged

\* one iteration of the inner loop of epsilon_closure
ClosureLoop ==
    /\ pc = "closing"
    /\ frame.at = "loop"
    /\ \E r \in {ClosureVisit(nfa, frame, sparse)} : ClosureSet(r.frame, r.set)
    /\ ClosureUnchanged

Next ==
    \/ FromHir
    \/ DFAEmpty
    \/ BuildStart
    \/ BuildStep
    \/ BuildDone
    \/ Find
    \/ MinimizerNew
    \/ RefineStep
    \/ Renumber

Spec == Init /\ [][Next]_vars

\* The construction of a DFA alone: from_hir, then from_nfa, or DFA::empty().
\* build is straight-line code around one loop: once entered, its next
\* iteration, or its return, is eventually executed.
BuildNext ==
    \/ FromHir
    \/ DFAEmpty
    \/ BuildStart
    \/ BuildStep
    \/ BuildDone

BuildSpec == Init /\ [][BuildNext]_vars /\ WF_vars(BuildStep) /\ WF_vars(BuildDone)

\* The use the tests make of a DFA: built, minimized, then iterated over an
\* input with Graphemes.  A for loop (collect) drives the iterator: its next
\* call is eventually made.
IterNext ==
    \/ FromHir
    \/ BuildStart
    \/ BuildStep
    \/ BuildDone
    \/ MinimizerNew
    \/ RefineStep
    \/ Renumber
    \/ GraphemesNew
    \/ GraphemesNext

IterSpec == Init /\ [][IterNext]_vars /\ WF_vars(GraphemesNext)

\* The minimization of a DFA that from_nfa built.  run is straight-line code
\* around one loop: once entered, its next iteration is eventually executed.
MinNext ==
    \/ FromHir
    \/ BuildStart
    \/ BuildStep
    \/ BuildDone
    \/ MinimizerNew
    \/ RefineStep
    \/ Renumber

MinSpec == Init /\ [][MinNext]_vars /\ WF_vars(RefineStep)

\* epsilon_closure run step by step, in the calls build makes of it: by
\* add_start on a new set, and by next on the set cached_state cleared.  The
\* loops of epsilon_closure are straight-line code: their next step is
\* eventually executed.
ClosureNextStep ==
    \/ FromHir
    \/ ClosureAddStart
    \/ ClosureNext
    \/ ClosureCall
    \/ ClosureWhile
    \/ ClosureLoop

ClosureSpec ==
    Init /\ [][ClosureNextStep]_vars /\ WF_vars(ClosureWhile) /\ WF_vars(ClosureLoop)

\* A SparseSet on its own, under any sequence of insert and clear: the state
\* after SparseSet::new(size), with nothing else constructed.
SparseInit ==
    /\ pattern = NoPattern
    /\ pc = "sparse"
    /\ msg = ""
    /\ nfa = <<>>
    /\ dfa = NoDFA
    /\ builder_states = <<>>
    /\ cache = <<>>
    /\ sparse \in {SparseSetNew(size) : size \in 0 .. MaxSparseSize}
    /\ uncompiled = <<>>
    /\ queued = {}
    /\ compiled_count = <<>>
    /\ in_transitions = <<>>
    /\ partitions = <<>>
    /\ waiting = <<>>
    /\ state_to_part = <<>>
    /\ minimal_ids = <<>>
    /\ orig = NoDFA
    /\ runs = 0
    /\ bytes = <<>>
    /\ found = None
    /\ self_bytes = <<>>
    /\ yielded = <<>>
    /\ inserted = <<>>
    /\ frame = NoFrame

SparseNext ==
    \/ SparseSetInsert
    \/ SparseSetClear

SparseSpec == SparseInit /\ [][SparseNext]_vars

(***************************************************************************)
(* Reference notions the properties are stated with.  None of them is      *)
(* taken from the code: the language of a pattern, the paths of an NFA,    *)
(* the run of a DFA, and the behavioural equivalence of DFA states.        *)
(***************************************************************************)
Prefix(s, i) == SubSeq(s, 1, i)
Suffix(s, i) == SubSeq(s, i + 1, Len(s))

\* the scalar value a byte string of one to four bytes stands for, if it is
\* well-formed UTF-8, from the payload bits of its bytes
PayloadOf(s) ==
    CASE Len(s) = 1 -> s[1]
      [] Len(s) = 2 -> (s[1] % 32) * 64 + (s[2] % 64)
      [] Len(s) = 3 -> (s[1] % 16) * 4096 + (s[2] % 64) * 64 + (s[3] % 64)
      [] Len(s) = 4 ->
            (s[1] % 8) * 262144 + (s[2] % 64) * 4096 + (s[3] % 64) * 64 + (s[4] % 64)
      [] OTHER -> 0

\* s is the UTF-8 encoding of a scalar value of start ..= end
EncodesWithin(s, start, end) ==
    LET c == PayloadOf(s) IN
    /\ Len(s) \in 1 .. 4
    /\ start <= c /\ c <= end
    /\ c < 55296 \/ c > 57343
    /\ c <= 1114111
    /\ s = encode_utf8(c)

RECURSIVE Matches(_, _)
RECURSIVE MatchesSeq(_, _, _)
RECURSIVE MatchesTimes(_, _, _)

\* s is a concatenation of strings matched by es[i], es[i + 1], ... in turn
MatchesSeq(es, i, s) ==
    IF i > Len(es) THEN Len(s) = 0
    ELSE \E k \in 0 .. Len(s) :
            Matches(es[i], Prefix(s, k)) /\ MatchesSeq(es, i + 1, Suffix(s, k))

\* s is a concatenation of k strings matched by e
MatchesTimes(e, s, k) ==
    IF k = 0 THEN Len(s) = 0
    ELSE \E j \in 0 .. Len(s) :
            Matches(e, Prefix(s, j)) /\ MatchesTimes(e, Suffix(s, j), k - 1)

\* the byte string s belongs to the language of the pattern e
Matches(e, s) ==
    CASE e.kind = "Empty" -> Len(s) = 0
      [] e.kind = "LiteralUnicode" -> s = encode_utf8(e.ch)
      [] e.kind = "LiteralByte" -> s = <<e.ch>>
      [] e.kind = "ClassBytes" ->
            /\ Len(s) = 1
            /\ \E i \in 1 .. Len(e.ranges) :
                  e.ranges[i].start <= s[1] /\ s[1] <= e.ranges[i].end
      [] e.kind = "ClassUnicode" ->
            \E i \in 1 .. Len(e.ranges) :
                EncodesWithin(s, e.ranges[i].start, e.ranges[i].end)
      [] e.kind = "Group" -> Matches(e.exprs[1], s)
      [] e.kind = "Concat" -> MatchesSeq(e.exprs, 1, s)
      [] e.kind = "Alternation" -> \E i \in 1 .. Len(e.exprs) : Matches(e.exprs[i], s)
      [] e.kind = "Repetition" ->
            CASE e.rkind = "ZeroOrOne" ->
                    \E k \in 0 .. 1 : MatchesTimes(e.exprs[1], s, k)
              [] e.rkind = "ZeroOrMore" ->
                    \E k \in 0 .. Len(s) : MatchesTimes(e.exprs[1], s, k)
              [] e.rkind = "OneOrMore" ->
                    \E k \in 1 .. (1 + Len(s)) : MatchesTimes(e.exprs[1], s, k)
              [] e.rkind = "Exactly" -> MatchesTimes(e.exprs[1], s, e.min)
              [] e.rkind = "AtLeast" ->
                    \E k \in e.min .. (e.min + Len(s)) : MatchesTimes(e.exprs[1], s, k)
              [] e.rkind = "Bounded" ->
                    \E k \in e.min .. e.max : MatchesTimes(e.exprs[1], s, k)
      [] OTHER -> FALSE

\* the length of the longest non-empty prefix of s the pattern matches
LongestMatch(e, s) ==
    IF \E i \in 1 .. Len(s) : Matches(e, Prefix(s, i))
    THEN Some(CHOOSE i \in 1 .. Len(s) :
                /\ Matches(e, Prefix(s, i))
                /\ \A j \in (i + 1) .. Len(s) : ~Matches(e, Prefix(s, j)))
    ELSE None

NFAIds(n) == 0 .. (Len(n) - 1)

\* the ids one epsilon edge away from id
EpsilonSuccessors(n, id) ==
    CASE n[id + 1].kind = "Empty" -> {n[id + 1].next}
      [] n[id + 1].kind = "Union" -> ElemsOf(n[id + 1].alternates)
      [] OTHER -> {}

\* the ids reachable from S by epsilon edges only
RECURSIVE EpsilonReach(_, _)
EpsilonReach(n, S) ==
    IF \A id \in S : EpsilonSuccessors(n, id) \subseteq S THEN S
    ELSE EpsilonReach(n, S \cup UNION {EpsilonSuccessors(n, id) : id \in S})

\* the ids the NFA can be at after a path from state 0 that consumes s
RECURSIVE NFAReach(_, _)
NFAReach(n, s) ==
    IF Len(s) = 0 THEN EpsilonReach(n, {0})
    ELSE EpsilonReach(n,
            {n[id + 1].next :
                id \in {i \in NFAReach(n, Front(s)) :
                            /\ n[i + 1].kind = "Range"
                            /\ n[i + 1].start <= Last(s)
                            /\ Last(s) <= n[i + 1].end}})

\* the NFA has a path from state 0 to a Match state that consumes exactly s
NFAAccepts(n, s) == \E id \in NFAReach(n, s) : n[id + 1].kind = "Match"

\* the state the DFA is in after reading s from state q
RECURSIVE Delta(_, _, _)
Delta(d, q, s) ==
    IF Len(s) = 0 THEN q
    ELSE Delta(d, d.states[q + 1].transitions[Head(s)], Tail(s))

\* the DFA is in a matching state after reading s from its start state
DFAAccepts(d, s) == d.states[Delta(d, d.start, s) + 1].is_match

\* The pairs of states of d that some byte string tells apart, found in
\* rounds: first the pairs that differ in is_match, then the pairs some byte
\* leads to a pair already told apart.
RECURSIVE Distinguishable(_, _)
Distinguishable(d, D) ==
    LET more == {pq \in (StateIds(d) \X StateIds(d)) \ D :
                    \E b \in Bytes :
                        <<d.states[pq[1] + 1].transitions[b],
                          d.states[pq[2] + 1].transitions[b]>> \in D}
    IN  IF more = {} THEN D ELSE Distinguishable(d, D \cup more)

\* the pairs of behaviourally equivalent states of d: no byte string is
\* accepted from one and not from the other
Equivalent(d) ==
    (StateIds(d) \X StateIds(d)) \
        Distinguishable(d,
            {pq \in StateIds(d) \X StateIds(d) :
                d.states[pq[1] + 1].is_match # d.states[pq[2] + 1].is_match})

\* the pattern holds an Anchor or a WordBoundary node at some position
RECURSIVE ContainsUnsupported(_)
ContainsUnsupported(e) ==
    \/ e.kind \in {"Anchor", "WordBoundary"}
    \/ \E i \in 1 .. Len(e.exprs) : ContainsUnsupported(e.exprs[i])

\* the states find was called on: those of a DFA from_nfa built, and those of
\* a DFA Minimizer::run has rewritten
FoundOnBuilt == pc = "found" /\ runs = 0 /\ pattern # NoPattern
FoundOnMinimized == pc = "found" /\ runs >= 1

(***************************************************************************)
(* The properties.                                                         *)
(***************************************************************************)

\* C1: minimization preserves the result of find: on a DFA that from_nfa
\* built and Minimizer::run rewrote, find returns for every byte string what
\* it returned on the DFA before the run.
C1_LanguagePreserved == FoundOnMinimized => found = find(orig, bytes)

\* C1 happens: find matched on a DFA from which a run removed states
C1_Witness ==
    /\ FoundOnMinimized
    /\ Len(dfa.states) < Len(orig.states)
    /\ found # None
    /\ Len(bytes) = MaxInputLen

\* C2: after Minimizer::run no two distinct states of the DFA are
\* behaviourally equivalent, and any two behaviourally equivalent states of
\* the DFA before the run were mapped to the same state.
C2_Minimal ==
    pc = "minimized" =>
        /\ \A pq \in Equivalent(dfa) : pq[1] = pq[2]
        /\ \A pq \in Equivalent(orig) :
              minimal_ids[state_to_part[pq[1]]] = minimal_ids[state_to_part[pq[2]]]

\* C2 happens: a run merged two distinct equivalent states
C2_Witness ==
    /\ pc = "minimized"
    /\ \E pq \in Equivalent(orig) : pq[1] # pq[2]
    /\ Len(dfa.states) > 2

\* C3: find on the DFA compiled from a pattern returns the length of the
\* longest non-empty prefix of the input the pattern matches, None if there
\* is none, whatever the order of the alternatives.
C3_LeftmostLongest ==
    (pc = "found" /\ pattern # NoPattern) => found = LongestMatch(pattern, bytes)

\* C4: the DFA from_nfa built is in a matching state after reading s exactly
\* when the NFA has a path from state 0 to Match that consumes s.
C4_SubsetConstructionEquivalent ==
    FoundOnBuilt => (DFAAccepts(dfa, bytes) <=> NFAAccepts(nfa, bytes))

\* the number of bytes find consumes: up to the first transition into the
\* dead state, or all of them
Consumed(d, s) ==
    IF \E i \in 1 .. Len(s) : Delta(d, d.start, Prefix(s, i)) = 0
    THEN (CHOOSE i \in 1 .. Len(s) :
            /\ Delta(d, d.start, Prefix(s, i)) = 0
            /\ \A j \in 1 .. (i - 1) : Delta(d, d.start, Prefix(s, j)) # 0) - 1
    ELSE Len(s)

\* the greatest i in 1 .. n such that d is in a matching state after i bytes
\* of s, as Some(i), or None
GreatestMatchWithin(d, s, n) ==
    IF \E i \in 1 .. n : DFAAccepts(d, Prefix(s, i))
    THEN Some(CHOOSE i \in 1 .. n :
                /\ DFAAccepts(d, Prefix(s, i))
                /\ \A j \in (i + 1) .. n : ~DFAAccepts(d, Prefix(s, j)))
    ELSE None

\* what find returns on s by its contract: the greatest i in 1 .. Len(s) with
\* d in a matching state after i bytes, or None
LongestAccepted(d, s) == GreatestMatchWithin(d, s, Len(s))

\* C5: find returns the position of the most recent matching state entered
\* before the first transition into the dead state or the end of the input,
\* and that is the greatest i in 1 ..= len with a matching state after i bytes.
C5_MatcherContract ==
    pc = "found" =>
        /\ found = GreatestMatchWithin(dfa, bytes, Consumed(dfa, bytes))
        /\ found = GreatestMatchWithin(dfa, bytes, Len(bytes))

\* C5 happens: find went on after a match, entered the dead state before the
\* end of the input, and returned the earlier match
C5_Witness ==
    /\ pc = "found"
    /\ found # None
    /\ found[1] < Consumed(dfa, bytes)
    /\ Consumed(dfa, bytes) < Len(bytes)

\* C6: in a DFA returned by from_nfa, and in a DFA after Minimizer::run,
\* state 0 is not matching and each of its 256 transitions leads to state 0.
C6_DeadStateAbsorbing ==
    (pc \in {"built", "minimized"} /\ pattern # NoPattern) =>
        /\ ~dfa.states[1].is_match
        /\ \A b \in 0 .. 255 : dfa.states[1].transitions[b] = 0

\* C6 happens: a run renumbered the states of a DFA in which other states
\* lead to state 0
C6_Witness ==
    /\ pc = "minimized"
    /\ Len(dfa.states) < Len(orig.states)
    /\ \E i \in 2 .. Len(dfa.states) : \E b \in 0 .. 255 :
          dfa.states[i].transitions[b] = 0

\* C7: from_hir returns an error, and no NFA, for every pattern that holds
\* an Anchor or a WordBoundary node at any position.
C7_UnsupportedRejected ==
    (pc # "init" /\ pattern # NoPattern /\ ContainsUnsupported(pattern)) =>
        (pc = "err" /\ nfa = <<>>)

\* C8: a second Minimizer::run on the output of a Minimizer::run leaves the
\* number of states as it is.
C8_MinimizeIdempotent ==
    (pc = "minimized" /\ runs >= 2) => Len(dfa.states) = Len(orig.states)

\* C8 happens: the DFA was minimized twice, and has states besides the dead
\* and the start state
C8_Witness == pc = "minimized" /\ runs = 2 /\ Len(dfa.states) > 3

\* C9: Minimizer::run never adds states.
C9_NoMoreStates == pc = "minimized" => Len(dfa.states) <= Len(orig.states)

\* C9 happens: a run removed states
C9_Witness == pc = "minimized" /\ runs = 1 /\ Len(dfa.states) < Len(orig.states)

\* C10: Minimizer::new fails its assertion exactly for a DFA without a
\* matching state, and has not changed the DFA when it does.
C10_MinimizerPrecondition ==
    [][(pc \in {"built", "minimized"} /\ pc' \in {"refining", "panic"}) =>
          /\ (pc' = "panic") <=> (\A i \in 1 .. Len(dfa.states) : ~dfa.states[i].is_match)
          /\ pc' = "panic" => (dfa' = dfa /\ msg' = "must have at least one matching state")
          /\ pc' = "refining" => msg' = ""]_vars

\* C10 happens: the assertion failed
C10_Witness ==
    /\ pc = "panic"
    /\ msg = "must have at least one matching state"
    /\ runs = 1
    /\ \A i \in 1 .. Len(dfa.states) : ~dfa.states[i].is_match

\* the pattern a|zz|z
A_ZZ_Z == Alternation(<<LitU(97), Concat(<<LitU(122), LitU(122)>>), LitU(122)>>)

\* C11: for the pattern a|zz|z, find on the bytes "zz" returns Some(2), on
\* the DFA from_nfa built and on the DFA after Minimizer::run.
C11_LongestAlternative ==
    (pc = "found" /\ pattern = A_ZZ_Z /\ bytes = <<122, 122>>) => found = Some(2)

\* C11 happens: find ran on "zz" on the minimized DFA of a|zz|z
C11_Witness ==
    /\ pc = "found"
    /\ pattern = A_ZZ_Z
    /\ bytes = <<122, 122>>
    /\ runs = 1
    /\ found # None

\* C12: on the DFA of the class U+0080 ..= U+07FF, find returns Some(2) on
\* the two bytes [C2-DF][80-BF] of every scalar value of the class, and None
\* on 7F (U+007F) and on E0 A0 80 (U+0800).
C12_TwoByteClass ==
    (pc = "found" /\ pattern = U0080_07FF) =>
        /\ (Len(bytes) = 2 /\ bytes[1] \in 194 .. 223 /\ bytes[2] \in 128 .. 191)
              => found = Some(2)
        /\ bytes \in {<<127>>, <<224, 160, 128>>} => found = None

\* C12 happens: find matched the last scalar value of the class, U+07FF
C12_Witness ==
    /\ pc = "found"
    /\ pattern = U0080_07FF
    /\ bytes = <<223, 191>>
    /\ found = Some(2)

RECURSIVE Flatten(_)
Flatten(ss) == IF Len(ss) = 0 THEN <<>> ELSE Head(ss) \o Flatten(Tail(ss))

\* C14: iterating find over the remaining bytes terminates; every segment
\* yielded is non-empty, the segments followed by what remains are the input
\* (consecutive, no overlap), and the iteration ends at the first position
\* where find returns None.
C14_Segmentation ==
    /\ [](pc \in {"iterating", "iterated"} =>
            /\ \A k \in 1 .. Len(yielded) : Len(yielded[k]) > 0
            /\ Flatten(yielded) \o self_bytes = bytes
            /\ \A k \in 1 .. Len(yielded) :
                  LongestAccepted(dfa, Suffix(bytes, Len(Flatten(SubSeq(yielded, 1, k - 1)))))
                      = Some(Len(yielded[k]))
            /\ pc = "iterated" => LongestAccepted(dfa, self_bytes) = None)
    /\ (pc = "iterating") ~> (pc = "iterated")

\* C14 happens: the iteration yielded two segments and ended before the end
\* of the input
C14_Witness ==
    /\ pc = "iterated"
    /\ Len(yielded) = 2
    /\ Len(self_bytes) > 0

\* C15: under any sequence of insert and clear on a SparseSet, with values
\* below its size and no more inserts between clears than its size, dense is
\* the sequence of the values inserted since the latest clear, in insertion
\* order, and contains(v) holds exactly for the values inserted since the
\* latest clear.
C15_SparseSetRepresentation ==
    pc = "sparse" =>
        /\ sparse.dense = inserted
        /\ \A v \in DOMAIN sparse.sparse :
              SparseContains(sparse, v) <=> \E k \in 1 .. Len(inserted) : inserted[k] = v

\* C15 happens: an entry of sparse left behind by a clear points into the
\* live part of dense, at a value that was not inserted since
C15_Witness ==
    /\ pc = "sparse"
    /\ \E v \in DOMAIN sparse.sparse :
          /\ sparse.sparse[v] > 0
          /\ sparse.sparse[v] < Len(sparse.dense)
          /\ \A k \in 1 .. Len(inserted) : inserted[k] # v

\* the loop of DFABuilder::build has emptied the worklist: the builder holds
\* the states of the DFA build is about to return
BuildFinished == pc = "building" /\ uncompiled = <<>>

\* C16: in a DFA built by DFABuilder::build, two distinct DFA ids never have
\* builder states with the same is_match and the same set of NFA ids.
C16_OneStatePerSubset ==
    BuildFinished =>
        \A i, j \in 1 .. Len(builder_states) :
            (/\ builder_states[i].is_match = builder_states[j].is_match
             /\ ElemsOf(builder_states[i].nfa_states) = ElemsOf(builder_states[j].nfa_states))
                => i = j

\* the closure cached_state hands to new_state for the DFA id and the byte
ClosureOf(dfa_id, b) == next(nfa, builder_states, dfa_id, b, SparseClear(sparse)).dense

\* C17: the builder state new_state makes of a closure holds its NFA ids in
\* strictly increasing order, holds every Range state of the closure, and
\* is_match is set exactly when the Match state is in the closure.
C17_CanonicalSubsets ==
    BuildFinished =>
        \A dfa_id \in 0 .. (Len(builder_states) - 1) : \A b \in Bytes :
            LET closure == ClosureOf(dfa_id, b)
                state == builder_states[dfa.states[dfa_id + 1].transitions[b] + 1]
            IN  /\ \A i, j \in 1 .. Len(state.nfa_states) :
                      i < j => state.nfa_states[i] < state.nfa_states[j]
                /\ \A k \in 1 .. Len(closure) :
                      nfa[closure[k] + 1].kind = "Range"
                          => closure[k] \in ElemsOf(state.nfa_states)
                /\ state.is_match <=>
                      \E k \in 1 .. Len(closure) : nfa[closure[k] + 1].kind = "Match"

\* C18: an iteration of the loop of build pushes onto the worklist only ids
\* that a cache miss of that iteration allocated, and when the loop ends
\* build has computed the 256 transitions of every DFA state exactly once.
C18_WorklistDiscipline ==
    /\ [][(pc = "building" /\ pc' = "building") =>
            \A id \in queued' \ queued : id >= Len(builder_states)]_vars
    /\ [](BuildFinished =>
            \A id \in 0 .. (Len(builder_states) - 1) : compiled_count[id + 1] = 1)

\* the blocks of parts are non-empty, pairwise disjoint, and cover ids
IsPartition(parts, ids) ==
    /\ \A p \in 1 .. Len(parts) : Len(parts[p]) > 0
    /\ \A p, q \in 1 .. Len(parts) :
          p # q => ElemsOf(parts[p]) \cap ElemsOf(parts[q]) = {}
    /\ UNION {ElemsOf(parts[p]) : p \in 1 .. Len(parts)} = ids

\* The for loop of run over the bytes lo ..= hi, as RefineBytes computes it,
\* with the partitions looked at after each byte: R is [M, ok], and ok stays
\* TRUE as long as the partitions after every byte so far were a partition
\* of ids.
RECURSIVE PartitionAfterEachByte(_, _, _, _, _, _)
PartitionAfterEachByte(in_tr, R0, set, ids, lo, hi) ==
    CHOOSE R1 \in
        {IF lo = hi
         THEN LET M1 == RefineByte(in_tr, R.M, set, lo)
              IN  [M |-> M1, ok |-> R.ok /\ IsPartition(M1.partitions, ids)]
         ELSE PartitionAfterEachByte(
                in_tr,
                PartitionAfterEachByte(in_tr, R, set, ids, lo, (lo + hi) \div 2),
                set, ids, (lo + hi) \div 2 + 1, hi) : R \in {R0}} : TRUE

\* C19: after the construction of the Minimizer, after each byte of each
\* iteration of the loop of run, and after the loop, the blocks of
\* partitions are non-empty, pairwise disjoint, and their union is the set
\* of the state ids of the DFA handed to the Minimizer.
C19_PartitionInvariant ==
    pc = "refining" =>
        /\ IsPartition(partitions, StateIds(orig))
        /\ Len(waiting) > 0 =>
              PartitionAfterEachByte(
                  in_transitions,
                  [M |-> [partitions |-> partitions, waiting |-> Front(waiting),
                          newparts |-> <<>>],
                   ok |-> TRUE],
                  Last(waiting), StateIds(orig), 0, ALPHABET_SIZE - 1).ok

\* C19 happens: the loop of run has split blocks and has blocks waiting
C19_Witness ==
    /\ pc = "refining"
    /\ Len(partitions) >= 4
    /\ Len(waiting) > 0

\* C20: an iteration of the loop of Minimizer::run replaces the partitions by
\* blocks each of which is a subset of a block it had before, and at every
\* point all the states of a block have the same is_match.
C20_RefinementMonotone ==
    /\ [][(pc = "refining" /\ pc' = "refining") =>
            \A p \in 1 .. Len(partitions') : \E q \in 1 .. Len(partitions) :
                ElemsOf(partitions'[p]) \subseteq ElemsOf(partitions[q])]_vars
    /\ [](pc = "refining" =>
            \A p \in 1 .. Len(partitions) : \A i, j \in ElemsOf(partitions[p]) :
                orig.states[i + 1].is_match = orig.states[j + 1].is_match)

\* C20 happens: the loop of run has ended with blocks that were split, and a
\* block of several states is left
C20_Witness ==
    /\ pc = "refining"
    /\ Len(waiting) = 0
    /\ Len(partitions) >= 3
    /\ \E p \in 1 .. Len(partitions) : Len(partitions[p]) >= 2

\* the ids whose transition on b leads into the block
Predecessors(d, block, b) ==
    {i \in StateIds(d) : d.states[i + 1].transitions[b] \in ElemsOf(block)}

\* no block of parts is split by the predecessors, on any byte, of any block
Stable(d, parts) ==
    \A q \in 1 .. Len(parts) : \A b \in Bytes :
        LET preds == Predecessors(d, parts[q], b) IN
        \A p \in 1 .. Len(parts) :
            \/ ElemsOf(parts[p]) \cap preds = {}
            \/ ElemsOf(parts[p]) \subseteq preds

\* C21: once Minimizer::new has accepted a DFA, the waiting list of run
\* becomes empty, and when it is empty no block of the partitions is split by
\* the predecessors, on any byte, of any block.
C21_MinimizationTerminates ==
    /\ (pc = "refining") ~> (pc = "refining" /\ Len(waiting) = 0)
    /\ []((pc = "refining" /\ Len(waiting) = 0) => Stable(orig, partitions))

\* C21 happens: the waiting list is empty after splits, the second time the
\* DFA is minimized or the first
C21_Witness ==
    /\ pc = "refining"
    /\ Len(waiting) = 0
    /\ Len(partitions) >= 5

\* C22: Minimizer::new leaves exactly one block in the waiting list, the
\* block of the matching states of the DFA it was given.
C22_InitialWorklist ==
    [][(pc \in {"built", "minimized"} /\ pc' = "refining") =>
          /\ Len(waiting') = 1
          /\ ElemsOf(waiting'[1]) = {i \in StateIds(dfa) : dfa.states[i + 1].is_match}]_vars

\* the block of parts that holds id
BlockOf(parts, id) == CHOOSE p \in 1 .. Len(parts) : id \in ElemsOf(parts[p])

\* C23: after Minimizer::run the DFA has one state per final block; the state
\* of a block has the is_match of the least member of the block, and each of
\* its transitions is the new id, below the new number of states, of the
\* block that holds the target of that member's transition.
C23_Renumbering ==
    pc = "minimized" =>
        \E new_id \in [1 .. Len(partitions) -> StateIds(dfa)] :
            /\ Len(dfa.states) = Len(partitions)
            /\ \A p, q \in 1 .. Len(partitions) : new_id[p] = new_id[q] => p = q
            /\ \A p \in 1 .. Len(partitions) :
                  LET rep == Min(ElemsOf(partitions[p])) IN
                  /\ dfa.states[new_id[p] + 1].is_match = orig.states[rep + 1].is_match
                  /\ \A b \in Bytes :
                        dfa.states[new_id[p] + 1].transitions[b] =
                            new_id[BlockOf(partitions, orig.states[rep + 1].transitions[b])]

\* C23 happens: run merged states, and renumbered a state that was not the
\* least of its block to a smaller id
C23_Witness ==
    /\ pc = "minimized"
    /\ runs = 1
    /\ Len(partitions) >= 4
    /\ \E id \in StateIds(orig) :
          /\ state_to_part[id] = id
          /\ minimal_ids[id] < id

Successors(s) ==
    CASE s.kind \in {"Empty", "Range"} -> {s.next}
      [] s.kind = "Union" -> ElemsOf(s.alternates)
      [] OTHER -> {}

\* C25: in the NFA from_hir returns, state 0 is an Empty state, the last
\* state is the only Match state, every Union has an alternate, and every id
\* a state refers to is an id of the table other than 0.
C25_NFAWellFormed ==
    pc = "compiled" =>
        /\ nfa[1].kind = "Empty"
        /\ {i \in 1 .. Len(nfa) : nfa[i].kind = "Match"} = {Len(nfa)}
        /\ \A i \in 1 .. Len(nfa) :
              /\ nfa[i].kind = "Union" => Len(nfa[i].alternates) >= 1
              /\ Successors(nfa[i]) \subseteq 1 .. (Len(nfa) - 1)

\* C25 happens: from_hir returned an NFA with a reverse Union, a Range and
\* an Empty state besides the start
C25_Witness ==
    /\ pc = "compiled"
    /\ Len(nfa) >= 8
    /\ \E i \in 1 .. Len(nfa) : nfa[i].kind = "Union" /\ nfa[i].reverse
    /\ \E i \in 2 .. Len(nfa) : nfa[i].kind = "Empty"

\* C26: the NFA compiled from a repetition of e accepts exactly the
\* concatenations of k strings matched by e, for the k the repetition
\* allows: min <= k <= max for e{min,max}, k = min for e{min}, k >= min for
\* e{min,}, e* and e+, k <= 1 for e?.
C26_RepetitionLanguage ==
    (pc = "compiled" /\ pattern.kind = "Repetition") =>
        \A s \in Inputs : NFAAccepts(nfa, s) <=> Matches(pattern, s)

\* C26 happens: a bounded repetition with different bounds was compiled
C26_Witness ==
    /\ pc = "compiled"
    /\ pattern.kind = "Repetition"
    /\ pattern.rkind = "Bounded"
    /\ pattern.min = 1
    /\ pattern.max = MaxCount
    /\ ~pattern.greedy

\* C27: find never returns Some(0); on a DFA whose start state is matching it
\* returns None for the empty input and for an input whose first byte leads
\* from the start state to the dead state.
C27_NoZeroLengthMatch ==
    pc = "found" =>
        /\ found # Some(0)
        /\ (/\ dfa.states[dfa.start + 1].is_match
            /\ \/ Len(bytes) = 0
               \/ dfa.states[dfa.start + 1].transitions[bytes[1]] = DFA_DEAD)
              => found = None

\* C27 happens: find was called with a non-empty input on a DFA whose start
\* state is matching, and the first byte led to the dead state
C27_Witness ==
    /\ pc = "found"
    /\ dfa.states[dfa.start + 1].is_match
    /\ Len(bytes) > 1
    /\ dfa.states[dfa.start + 1].transitions[bytes[1]] = DFA_DEAD
    /\ found = None

\* C28: Minimizer::run leaves dfa.start as it is, and after the run of a DFA
\* that from_nfa built dfa.start is an index of the state table, the one the
\* least member of the block of the former start state was moved to.
C28_StartSurvives ==
    /\ [][(pc = "refining" /\ pc' = "minimized") => dfa'.start = dfa.start]_vars
    /\ []((pc = "minimized" /\ pattern # NoPattern) =>
            /\ dfa.start < Len(dfa.states)
            /\ minimal_ids[Min(ElemsOf(partitions[BlockOf(partitions, orig.start)]))]
                  = dfa.start)

\* C28 happens: run merged the start state with another state and removed
\* states
C28_Witness ==
    /\ pc = "minimized"
    /\ pattern # NoPattern
    /\ Len(partitions[BlockOf(partitions, orig.start)]) >= 2
    /\ Len(dfa.states) >= 3

\* C29: from_hir returns Ok, and fails no assertion, for every pattern made
\* of Empty, Literal, Class, Repetition, Group, Concat and Alternation nodes
\* only, a class without ranges included.
C29_SupportedCompiles ==
    (pc # "init" /\ pattern # NoPattern /\ ~ContainsUnsupported(pattern)) =>
        (pc # "err" /\ msg # "alternations must be non-empty")

\* C30: throughout the calls build makes of epsilon_closure, insert is never
\* called with a value the set holds, so that dense holds no value twice,
\* and insert never fails its assertion.
C30_NoDuplicateInsert ==
    /\ pc = "closing" =>
          \A i, j \in 1 .. Len(sparse.dense) :
              sparse.dense[i] = sparse.dense[j] => i = j
    /\ msg # "assertion failed: i < self.capacity()"

====
